---------------------------- MODULE Spec2Model ----------------------------
(***************************************************************************)
(* A model of the three utilities of the VX repository:                    *)
(*   parseContent   (src/smartParse.js)                                     *)
(*   safeStringify  (src/safeStringify.js)                                  *)
(*   quickFind      (src/unnamed/part_000)                                  *)
(* Each utility has a specification of its own (SpecParse, SpecStringify,   *)
(* SpecFind); the variables of the other two stay at their idle values.     *)
(*                                                                         *)
(* Text is a sequence of one-character strings, so that parsing, printing   *)
(* and upper-casing are computed and not assumed.                           *)
(***************************************************************************)
EXTENDS Integers, Sequences, FiniteSets, TLC

VARIABLES
    \* ---- parseContent ----
    response,    \* the response argument: NoResponse or [type, body]
    parsers,     \* the parsers argument: a sequence of <<type, entry>> (own keys in order)
    callback,    \* the callback argument: "none", "fn" or "notfn"
    pc,          \* position in parseContent
    content,     \* let content
    typeRules,   \* const typeRules
    idx,         \* position of the for..of loop in typeRules
    result,      \* let result
    processed,   \* let processed
    evald,       \* history: the rules evaluated so far, with what each did
    cbLog,       \* history: the calls made to the callback
    trail,       \* history: the positions pc has gone through
    outcome,     \* how the call ended: none, returned value or thrown error
    \* ---- safeStringify ----
    sRoot,       \* the value argument: a leaf or a reference to a heap object
    heap,        \* the objects reachable from the argument, by identity
    sPc,         \* position in safeStringify
    stack,       \* JSON.stringify's recursion: frames [node, next, emitted]
    seen,        \* const seen = new WeakSet()
    out,         \* the text produced so far, as tokens
    descents,    \* history: how often each object was descended into
    hits,        \* history: how often the replacer found its value in seen
    steps,       \* history: the number of steps taken by the call
    sOutcome,    \* how the call ended
    \* ---- quickFind ----
    fContent,    \* the content argument
    fPatterns,   \* the patterns argument: a sequence of pattern objects
    fMax,        \* options.maxMatches
    lastIndex,   \* lastIndex of each caller-owned RegExp object
    reports      \* history: results of each call made so far

pvars == <<response, parsers, callback, pc, content, typeRules, idx, result,
           processed, evald, cbLog, trail, outcome>>
svars == <<sRoot, heap, sPc, stack, seen, out, descents, hits, steps, sOutcome>>
fvars == <<fContent, fPatterns, fMax, lastIndex, reports>>
vars == <<pvars, svars, fvars>>

-----------------------------------------------------------------------------
(* Bounds of the model *)

\* longest enumerated response body, in characters
MaxLen == 3
\* longest caller-supplied rule list
MaxRules == 2
\* most objects in a value graph given to safeStringify
MaxNodes == 2
\* longest content given to quickFind, in characters
MaxContent == 3
\* largest options.maxMatches given (the default of 1000 is not used)
MaxCap == 2
\* most calls of quickFind made with the same arguments
MaxCalls == 2

-----------------------------------------------------------------------------
(* JavaScript values as they occur in parseContent: a tag k and a payload v *)

Str(s) == [k |-> "str", v |-> s]
Num(n) == [k |-> "num", v |-> n]
Bool(b) == [k |-> "bool", v |-> b]
Arr(e) == [k |-> "arr", v |-> e]
Obj(m) == [k |-> "obj", v |-> m]
Null == [k |-> "null", v |-> 0]
Undef == [k |-> "undef", v |-> 0]

Digits == <<"0", "1", "2", "3", "4", "5", "6", "7", "8", "9">>
DigitSet == {Digits[i] : i \in 1..10}
DigitVal(c) == (CHOOSE i \in 1..10 : Digits[i] = c) - 1

\* Number.prototype.toString for a non-negative integer
RECURSIVE NumToStr(_)
NumToStr(n) ==
    IF n < 10 THEN <<Digits[n + 1]>>
    ELSE NumToStr(n \div 10) \o <<Digits[(n % 10) + 1]>>

TxtNull == <<"n", "u", "l", "l">>
TxtTrue == <<"t", "r", "u", "e">>
TxtFalse == <<"f", "a", "l", "s", "e">>
TxtUndefined == <<"u", "n", "d", "e", "f", "i", "n", "e", "d">>
TxtObject == <<"[", "o", "b", "j", "e", "c", "t", " ", "O", "b", "j", "e", "c", "t", "]">>

\* ToString(value), the coercion JSON.parse applies to a non-string argument.
\* Array.prototype.join renders null and undefined elements as the empty text.
RECURSIVE ToStringJS(_), JoinJS(_, _)
ToStringJS(x) ==
    CASE x.k = "str" -> x.v
      [] x.k = "num" -> NumToStr(x.v)
      [] x.k = "bool" -> IF x.v THEN TxtTrue ELSE TxtFalse
      [] x.k = "null" -> TxtNull
      [] x.k = "undef" -> TxtUndefined
      [] x.k = "arr" -> JoinJS(x.v, 1)
      [] x.k = "obj" -> TxtObject

JoinJS(e, i) ==
    IF i > Len(e) THEN <<>>
    ELSE (IF i > 1 THEN <<",">> ELSE <<>>)
         \o (IF e[i].k \in {"null", "undef"} THEN <<>> ELSE ToStringJS(e[i]))
         \o JoinJS(e, i + 1)

-----------------------------------------------------------------------------
(* JSON.parse, by recursive descent over the text.  The grammar covered:    *)
(* whitespace (space), null, true, false, non-negative integers, strings    *)
(* without escapes, arrays and objects.  Any other character is a           *)
(* SyntaxError, as it is for JSON.parse on these texts.                      *)

PFail == [ok |-> FALSE, val |-> Null, pos |-> 0]
POk(x, p) == [ok |-> TRUE, val |-> x, pos |-> p]

RECURSIVE SkipWs(_, _)
SkipWs(s, i) == IF i <= Len(s) /\ s[i] = " " THEN SkipWs(s, i + 1) ELSE i

RECURSIVE ScanDigits(_, _)
ScanDigits(s, i) == IF i <= Len(s) /\ s[i] \in DigitSet THEN ScanDigits(s, i + 1) ELSE i

RECURSIVE DigitsToNat(_)
DigitsToNat(d) ==
    IF d = <<>> THEN 0
    ELSE 10 * DigitsToNat(SubSeq(d, 1, Len(d) - 1)) + DigitVal(d[Len(d)])

\* a JSON number: "0" alone, or a digit run that does not start with "0"
ParseNumber(s, i) ==
    LET j == ScanDigits(s, i) IN
    IF j = i THEN PFail
    ELSE IF s[i] = "0" THEN POk(Num(0), i + 1)
    ELSE POk(Num(DigitsToNat(SubSeq(s, i, j - 1))), j)

\* position of the quote closing the string opened before i; 0 if there is none
RECURSIVE FindQuote(_, _)
FindQuote(s, i) ==
    IF i > Len(s) THEN 0
    ELSE IF s[i] = "\"" THEN i
    ELSE IF s[i] = "\\" THEN 0
    ELSE FindQuote(s, i + 1)

ParseString(s, i) ==
    LET j == FindQuote(s, i + 1) IN
    IF j = 0 THEN PFail ELSE POk(Str(SubSeq(s, i + 1, j - 1)), j + 1)

ParseLiteral(s, i, word, x) ==
    IF i + Len(word) - 1 <= Len(s) /\ SubSeq(s, i, i + Len(word) - 1) = word
    THEN POk(x, i + Len(word))
    ELSE PFail

\* an object member list keeps insertion order; a repeated key keeps its first
\* place and takes the last value
PutMember(m, key, x) ==
    IF \E i \in 1..Len(m) : m[i][1] = key
    THEN [i \in 1..Len(m) |-> IF m[i][1] = key THEN <<key, x>> ELSE m[i]]
    ELSE Append(m, <<key, x>>)

RECURSIVE ParseValue(_, _), ParseElems(_, _, _), ParseMembers(_, _, _)
ParseValue(s, i0) ==
    LET i == SkipWs(s, i0) IN
    IF i > Len(s) THEN PFail
    ELSE CASE s[i] = "[" ->
                LET j == SkipWs(s, i + 1) IN
                IF j <= Len(s) /\ s[j] = "]" THEN POk(Arr(<<>>), j + 1)
                ELSE ParseElems(s, i + 1, <<>>)
           [] s[i] = "{" ->
                LET j == SkipWs(s, i + 1) IN
                IF j <= Len(s) /\ s[j] = "}" THEN POk(Obj(<<>>), j + 1)
                ELSE ParseMembers(s, i + 1, <<>>)
           [] s[i] = "\"" -> ParseString(s, i)
           [] s[i] \in DigitSet -> ParseNumber(s, i)
           [] s[i] = "n" -> ParseLiteral(s, i, TxtNull, Null)
           [] s[i] = "t" -> ParseLiteral(s, i, TxtTrue, Bool(TRUE))
           [] s[i] = "f" -> ParseLiteral(s, i, TxtFalse, Bool(FALSE))
           [] OTHER -> PFail

ParseElems(s, i, acc) ==
    LET r == ParseValue(s, i) IN
    IF ~r.ok THEN PFail
    ELSE LET j == SkipWs(s, r.pos) IN
         IF j > Len(s) THEN PFail
         ELSE IF s[j] = "," THEN ParseElems(s, j + 1, Append(acc, r.val))
         ELSE IF s[j] = "]" THEN POk(Arr(Append(acc, r.val)), j + 1)
         ELSE PFail

ParseMembers(s, i0, acc) ==
    LET i == SkipWs(s, i0) IN
    IF i > Len(s) \/ s[i] # "\"" THEN PFail
    ELSE LET key == ParseString(s, i) IN
         IF ~key.ok THEN PFail
         ELSE LET c == SkipWs(s, key.pos) IN
              IF c > Len(s) \/ s[c] # ":" THEN PFail
              ELSE LET r == ParseValue(s, c + 1) IN
                   IF ~r.ok THEN PFail
                   ELSE LET j == SkipWs(s, r.pos) IN
                        IF j > Len(s) THEN PFail
                        ELSE IF s[j] = ","
                             THEN ParseMembers(s, j + 1, PutMember(acc, key.val.v, r.val))
                        ELSE IF s[j] = "}"
                             THEN POk(Obj(PutMember(acc, key.val.v, r.val)), j + 1)
                        ELSE PFail

\* JSON.parse(text): the whole text must be one value
JSONParseText(s) ==
    LET r == ParseValue(s, 1) IN
    IF r.ok /\ SkipWs(s, r.pos) = Len(s) + 1
    THEN [ok |-> TRUE, val |-> r.val]
    ELSE [ok |-> FALSE, val |-> Null]

\* JSON.parse(x) for any value: the argument is first coerced to text
JSONParse(x) == JSONParseText(ToStringJS(x))

-----------------------------------------------------------------------------
(* parseContent: the arguments *)

\* the type names used; "xml" has no built-in parser
AllTypes == {"json", "html", "text", "xml"}

\* caller-supplied functions: their behaviour is the caller's, fixed here as
\*   upper  : text -> upper-cased text, throws on anything else
\*   double : number -> twice the number, throws on anything else
\*   inc    : number -> the number plus one, throws on anything else
\*   boom   : always throws
CallerFns == {"upper"}
CallerPipes == {<<"double", "inc">>, <<"double", "boom">>}

Fn(f) == [k |-> "fn", v |-> <<f>>]
Pipe(fs) == [k |-> "pipe", v |-> fs]

\* a rule object { rule, parse }: rule is a predicate that returns true ("T"),
\* returns false ("F") or throws ("X")
CallerRules ==
    [rule : {"T", "F", "X"}, parse : {Fn(f) : f \in CallerFns} \cup {Pipe(p) : p \in CallerPipes}]

RuleLists(n) == UNION {[1..m -> CallerRules] : m \in 0..n}

\* what a caller may put under a type key: an array of rules, a function, or
\* something that is neither (the README's bare { rule, parse } object)
Entries ==
    {[k |-> "list", v |-> l] : l \in RuleLists(MaxRules)}
    \cup {[k |-> "fn", v |-> <<f>>] : f \in CallerFns}
    \cup {[k |-> "other", v |-> <<>>]}

Alphabet == {"1", "[", "]", "\"", "a", ","}
Texts(n) == UNION {[1..m -> Alphabet] : m \in 0..n}

ExampleTexts ==
    { <<"{", "\"", "a", "\"", ":", "1", "}">>,
      <<"a", "b", "c">>,
      <<"n", "o", "t", " ", "j", "s", "o", "n">>,
      <<"n", "u", "l", "l">>,
      <<"[", "1", ",", "1", "]">>,
      <<"3">> }

\* response.body: text, or a value that is not text
Bodies ==
    {Str(t) : t \in Texts(MaxLen) \cup ExampleTexts}
    \cup {Num(3), Undef, Arr(<<Num(1)>>), Obj(<<>>)}

SmallBodies == {Str(<<"a", "b", "c">>), Str(<<"[", "1", "]">>), Num(3)}

NoResponse == [present |-> FALSE, type |-> "none", body |-> Undef]
Responses(types, bodies) == [present : {TRUE}, type : types, body : bodies]

-----------------------------------------------------------------------------
(* parseContent: the functions it calls *)

UpperChar(c) ==
    CASE c = "a" -> "A" [] c = "b" -> "B" [] c = "c" -> "C" [] OTHER -> c

FOk(x) == [ok |-> TRUE, val |-> x]
FFail == [ok |-> FALSE, val |-> Null]

\* parser(currentContent): one function applied to one value
ApplyFn(f, x) ==
    CASE f = "upper" ->
            IF x.k = "str" THEN FOk(Str([i \in 1..Len(x.v) |-> UpperChar(x.v[i])])) ELSE FFail
      [] f = "double" -> IF x.k = "num" THEN FOk(Num(2 * x.v)) ELSE FFail
      [] f = "inc" -> IF x.k = "num" THEN FOk(Num(x.v + 1)) ELSE FFail
      [] f = "boom" -> FFail
      [] f = "JSON.parse" -> JSONParse(x)
      [] f = "identity" -> FOk(x)

\* parse.reduce((currentContent, parser) => parser(currentContent), content)
RECURSIVE Reduce(_, _, _)
Reduce(fs, i, cur) ==
    IF i > Len(fs) THEN FOk(cur)
    ELSE LET r == ApplyFn(fs[i], cur) IN
         IF r.ok THEN Reduce(fs, i + 1, r.val) ELSE FFail

\* Array.isArray(parse) ? parse.reduce(...) : parse(content)
ApplyParse(parse, x) ==
    IF parse.k = "pipe" THEN Reduce(parse.v, 1, x) ELSE ApplyFn(parse.v[1], x)

\* const type = response.type || 'text'
EffType(r) == IF r.type = "none" THEN "text" ELSE r.type

\* Extract with the type test dropped: any text body is decoded
ExtractAnyType(r) ==
    IF r.body.k = "str" THEN JSONParseText(r.body.v) ELSE FOk(r.body)

\* the content extracted in the first try block
Extract(r) ==
    IF EffType(r) = "json" /\ r.body.k = "str" THEN JSONParseText(r.body.v)
    ELSE FOk(r.body)

\* const defaultParsers = { json: [...], html: [...], text: [...] }
DefaultParsers(t) ==
    CASE t = "json" -> [has |-> TRUE, rules |-> <<[rule |-> "T", parse |-> Fn("JSON.parse")]>>]
      [] t \in {"html", "text"} -> [has |-> TRUE, rules |-> <<[rule |-> "T", parse |-> Fn("identity")]>>]
      [] OTHER -> [has |-> FALSE, rules |-> <<>>]

\* MergeEntry with push in place of unshift: the caller's rules come last
MergeEntryAppend(m, t, e) ==
    LET base == IF m[t].has THEN m[t].rules ELSE <<>>
        new == CASE e.k = "list" -> base \o e.v
                 [] e.k = "fn" -> base \o <<[rule |-> "T", parse |-> Fn(e.v[1])]>>
                 [] OTHER -> base
    IN [m EXCEPT ![t] = [has |-> TRUE, rules |-> new]]

\* one turn of Object.keys(parsers).forEach: the entry under key t is merged
MergeEntry(m, t, e) ==
    LET base == IF m[t].has THEN m[t].rules ELSE <<>>
        new == CASE e.k = "list" -> e.v \o base
                 [] e.k = "fn" -> <<[rule |-> "T", parse |-> Fn(e.v[1])]>> \o base
                 [] OTHER -> base
    IN [m EXCEPT ![t] = [has |-> TRUE, rules |-> new]]

RECURSIVE MergeFrom(_, _, _)
MergeFrom(ps, i, m) ==
    IF i > Len(ps) THEN m ELSE MergeFrom(ps, i + 1, MergeEntry(m, ps[i][1], ps[i][2]))

\* mergedParsers after the merge
MergedParsers(ps) == MergeFrom(ps, 1, [t \in AllTypes |-> DefaultParsers(t)])

\* const typeRules = mergedParsers[type] || []
TypeRules(ps, t) == LET m == MergedParsers(ps) IN IF m[t].has THEN m[t].rules ELSE <<>>

\* the body of the for..of loop for one rule: what the predicate did and, when
\* it returned true, what the transform did
EvalRule(r, x) ==
    IF r.rule = "T"
    THEN LET a == ApplyParse(r.parse, x) IN
         [pred |-> "T", tf |-> IF a.ok THEN "ok" ELSE "threw", val |-> a.val]
    ELSE [pred |-> r.rule, tf |-> "none", val |-> Null]

-----------------------------------------------------------------------------
(* parseContent: the state machine *)

NoOutcome == [k |-> "none", v |-> Undef]
Returned(x) == [k |-> "returned", v |-> x]
Threw(e) == [k |-> "threw", v |-> e]
ErrRequired == [k |-> "error", v |-> "Response is required"]
ErrDecode == [k |-> "error", v |-> "Failed to parse content"]

\* if (callback && typeof callback === 'function') callback(...args)
Invoke(args) == IF callback = "fn" THEN Append(cbLog, args) ELSE cbLog

PIdle ==
    /\ pc = "idle" /\ content = Undef /\ typeRules = <<>> /\ idx = 0
    /\ result = Undef /\ processed = FALSE /\ evald = <<>> /\ cbLog = <<>>
    /\ trail = <<>> /\ outcome = NoOutcome

PInit ==
    /\ PIdle
    /\ \/ /\ response = NoResponse
          /\ parsers = <<>>
          /\ callback \in {"none", "fn"}
       \/ /\ response \in Responses(AllTypes \cup {"none"}, Bodies)
          /\ parsers = <<>>
          /\ callback \in {"none", "fn", "notfn"}
       \/ /\ response \in Responses({"json", "text", "xml"}, SmallBodies)
          /\ \E e \in Entries : parsers = << <<response.type, e>> >>
          /\ callback = "fn"
       \/ /\ response \in Responses({"json", "text", "xml"}, SmallBodies)
          /\ \E e \in Entries : e.k # "list" /\ parsers = << <<"html", e>> >>
          /\ callback = "fn"

\* if (!response) throw new Error('Response is required')
PReject ==
    /\ UNCHANGED <<svars, fvars>>
    /\ pc = "idle" /\ ~response.present
    /\ pc' = "threw"
    /\ trail' = Append(trail, "threw")
    /\ outcome' = Threw(ErrRequired)
    /\ UNCHANGED <<response, parsers, callback, content, typeRules, idx, result,
                   processed, evald, cbLog>>

\* the first try block, when it completes
PExtract ==
    /\ UNCHANGED <<svars, fvars>>
    /\ pc = "idle" /\ response.present /\ Extract(response).ok
    /\ content' = Extract(response).val
    /\ pc' = "extracted"
    /\ trail' = Append(trail, "extracted")
    /\ UNCHANGED <<response, parsers, callback, typeRules, idx, result, processed,
                   evald, cbLog, outcome>>

\* the first try block, when JSON.parse throws: callback(null, error); throw error
PExtractFail ==
    /\ UNCHANGED <<svars, fvars>>
    /\ pc = "idle" /\ response.present /\ ~Extract(response).ok
    /\ cbLog' = Invoke(<<Null, ErrDecode>>)
    /\ outcome' = Threw(ErrDecode)
    /\ pc' = "threw"
    /\ trail' = Append(trail, "threw")
    /\ UNCHANGED <<response, parsers, callback, content, typeRules, idx, result,
                   processed, evald>>

\* PNoRules with the callback forgotten on the early return
PNoRulesSilent ==
    /\ UNCHANGED <<svars, fvars>>
    /\ pc = "extracted" /\ TypeRules(parsers, EffType(response)) = <<>>
    /\ typeRules' = <<>>
    /\ outcome' = Returned(content)
    /\ pc' = "done"
    /\ trail' = Append(trail, "done")
    /\ UNCHANGED <<response, parsers, callback, content, idx, result, processed, evald,
                   cbLog>>

\* the merge of the parsers; typeRules is empty: callback(content); return content
PNoRules ==
    /\ UNCHANGED <<svars, fvars>>
    /\ pc = "extracted" /\ TypeRules(parsers, EffType(response)) = <<>>
    /\ typeRules' = <<>>
    /\ cbLog' = Invoke(<<content>>)
    /\ outcome' = Returned(content)
    /\ pc' = "done"
    /\ trail' = Append(trail, "done")
    /\ UNCHANGED <<response, parsers, callback, content, idx, result, processed, evald>>

\* the merge of the parsers; typeRules is not empty: the loop is entered
PMerge ==
    /\ UNCHANGED <<svars, fvars>>
    /\ pc = "extracted" /\ TypeRules(parsers, EffType(response)) # <<>>
    /\ typeRules' = TypeRules(parsers, EffType(response))
    /\ result' = content
    /\ processed' = FALSE
    /\ idx' = 1
    /\ pc' = "scan"
    /\ trail' = Append(trail, "scan")
    /\ UNCHANGED <<response, parsers, callback, content, evald, cbLog, outcome>>

\* PRuleFire with the break forgotten: the scan goes on after a match
PRuleFireNoBreak ==
    /\ UNCHANGED <<svars, fvars>>
    /\ pc = "scan" /\ idx <= Len(typeRules)
    /\ LET r == EvalRule(typeRules[idx], content) IN
        /\ r.tf = "ok"
        /\ result' = r.val
        /\ evald' = Append(evald, [i |-> idx, pred |-> r.pred, tf |-> r.tf])
    /\ processed' = TRUE
    /\ idx' = idx + 1
    /\ pc' = IF idx + 1 > Len(typeRules) THEN "matched" ELSE "scan"
    /\ trail' = IF idx + 1 > Len(typeRules) THEN Append(trail, "matched") ELSE trail
    /\ UNCHANGED <<response, parsers, callback, content, typeRules, cbLog, outcome>>

\* one turn of the loop in which the rule matches and its transform returns:
\* result = ...; processed = true; break
PRuleFire ==
    /\ UNCHANGED <<svars, fvars>>
    /\ pc = "scan" /\ idx <= Len(typeRules)
    /\ LET r == EvalRule(typeRules[idx], content) IN
        /\ r.tf = "ok"
        /\ result' = r.val
        /\ evald' = Append(evald, [i |-> idx, pred |-> r.pred, tf |-> r.tf])
    /\ processed' = TRUE
    /\ pc' = "matched"
    /\ trail' = Append(trail, "matched")
    /\ UNCHANGED <<response, parsers, callback, content, typeRules, idx, cbLog, outcome>>

\* PRuleSkip with the try around the loop instead of inside it: the first
\* exception ends the scan
PRuleSkipBreak ==
    /\ UNCHANGED <<svars, fvars>>
    /\ pc = "scan" /\ idx <= Len(typeRules)
    /\ LET r == EvalRule(typeRules[idx], content)
           stop == idx + 1 > Len(typeRules) \/ r.pred = "X" \/ r.tf = "threw"
       IN /\ r.tf # "ok"
          /\ evald' = Append(evald, [i |-> idx, pred |-> r.pred, tf |-> r.tf])
          /\ pc' = IF stop THEN "exhausted" ELSE "scan"
          /\ trail' = IF stop THEN Append(trail, "exhausted") ELSE trail
    /\ idx' = idx + 1
    /\ UNCHANGED <<response, parsers, callback, content, typeRules, result, processed,
                   cbLog, outcome>>

\* one turn of the loop in which the rule does not match, or the predicate or
\* the transform throws (caught, console.warn): the loop goes on
PRuleSkip ==
    /\ UNCHANGED <<svars, fvars>>
    /\ pc = "scan" /\ idx <= Len(typeRules)
    /\ LET r == EvalRule(typeRules[idx], content) IN
        /\ r.tf # "ok"
        /\ evald' = Append(evald, [i |-> idx, pred |-> r.pred, tf |-> r.tf])
    /\ idx' = idx + 1
    /\ pc' = IF idx + 1 > Len(typeRules) THEN "exhausted" ELSE "scan"
    /\ trail' = IF idx + 1 > Len(typeRules) THEN Append(trail, "exhausted") ELSE trail
    /\ UNCHANGED <<response, parsers, callback, content, typeRules, result, processed,
                   cbLog, outcome>>

\* after the loop: if (!processed) result = content; callback(result); return result
PFinish ==
    /\ UNCHANGED <<svars, fvars>>
    /\ pc \in {"matched", "exhausted"}
    /\ LET res == IF ~processed THEN content ELSE result IN
        /\ result' = res
        /\ cbLog' = Invoke(<<res>>)
        /\ outcome' = Returned(res)
    /\ pc' = "done"
    /\ trail' = Append(trail, "done")
    /\ UNCHANGED <<response, parsers, callback, content, typeRules, idx, processed, evald>>

NextParse ==
    \/ PReject
    \/ PExtract
    \/ PExtractFail
    \/ PNoRules
    \/ PMerge
    \/ PRuleFire
    \/ PRuleSkip
    \/ PFinish

-----------------------------------------------------------------------------
(* idle values of the other utilities' variables *)

SIdle ==
    /\ sRoot = <<>> /\ heap = <<>> /\ sPc = "idle" /\ stack = <<>> /\ seen = {}
    /\ out = <<>> /\ descents = <<>> /\ hits = 0 /\ steps = 0 /\ sOutcome = "none"

FIdle ==
    /\ fContent = <<>> /\ fPatterns = <<>> /\ fMax = 0 /\ lastIndex = <<>>
    /\ reports = <<>>

InitParse == PInit /\ SIdle /\ FIdle
SpecParse == InitParse /\ [][NextParse]_vars

-----------------------------------------------------------------------------
(* parseContent: the claims *)

\* the first try block throws exactly here
DecodeFails ==
    /\ response.present /\ EffType(response) = "json" /\ response.body.k = "str"
    /\ ~JSONParseText(response.body.v).ok

PEnded == pc \in {"done", "threw"}

\* position in rules of the first rule whose predicate returns true and whose
\* transform returns; 0 if there is none
FirstOk(rules, x) ==
    LET ok(i) == rules[i].rule = "T" /\ ApplyParse(rules[i].parse, x).ok IN
    IF \E i \in 1..Len(rules) : ok(i)
    THEN CHOOSE i \in 1..Len(rules) : ok(i) /\ \A j \in 1..(i - 1) : ~ok(j)
    ELSE 0

\* the caller's rules for type t as the README documents them: the array under
\* the key, or the single function as one always-matching rule
CallerRulesFor(t) ==
    IF \E i \in 1..Len(parsers) : parsers[i][1] = t
    THEN LET e == parsers[CHOOSE i \in 1..Len(parsers) : parsers[i][1] = t][2] IN
         CASE e.k = "list" -> e.v
           [] e.k = "fn" -> <<[rule |-> "T", parse |-> Fn(e.v[1])]>>
           [] OTHER -> <<>>
    ELSE <<>>

BuiltInRules(t) ==
    CASE t = "json" -> <<[rule |-> "T", parse |-> Fn("JSON.parse")]>>
      [] t \in {"html", "text"} -> <<[rule |-> "T", parse |-> Fn("identity")]>>
      [] OTHER -> <<>>

C3_CallerRulesPrecedeDefault ==
    LET t == EffType(response)
        c == CallerRulesFor(t)
        f == FirstOk(c, content)
    IN /\ pc \in {"scan", "matched", "exhausted", "done"} =>
              typeRules = c \o BuiltInRules(t)
       /\ (pc = "done" /\ f # 0) =>
              outcome = Returned(ApplyParse(c[f].parse, content).val)

C3_Witness ==
    /\ pc = "done"
    /\ response.type = "text" /\ response.body = Str(<<"a", "b", "c">>)
    /\ parsers = << <<"text", [k |-> "list", v |-> <<[rule |-> "T", parse |-> Fn("upper")]>>]>> >>
    /\ outcome = Returned(Str(<<"A", "B", "C">>))

\* C4 as stated: for a json response whose body is text holding valid JSON and
\* no custom parsers, the call returns the body decoded once.
C4_JsonDecodedOnce ==
    (pc = "done" /\ EffType(response) = "json" /\ response.body.k = "str" /\ parsers = <<>>)
        => outcome = Returned(JSONParseText(response.body.v).val)

\* C5: a rule whose predicate or transform throws is skipped and the scan goes
\* on with the next rule in order; when no rule matched and transformed, the
\* call returns the base content unchanged.
C5_FailedRulesSkippedIdentityFallback ==
    LET f == FirstOk(typeRules, content) IN
    /\ pc \in {"matched", "exhausted", "done"} =>
          /\ Len(evald) = IF f = 0 THEN Len(typeRules) ELSE f
          /\ \A j \in 1..Len(evald) : evald[j].i = j
    /\ (pc = "done" /\ f = 0) => outcome = Returned(content)

C5_Witness ==
    /\ pc = "done" /\ Len(evald) >= 2
    /\ \A j \in 1..Len(evald) : evald[j].tf # "ok"
    /\ \E j \in 1..Len(evald) : evald[j].tf = "threw" /\ typeRules[j].parse.k = "pipe"
    /\ \E j \in 1..Len(evald) : evald[j].pred = "X"
    /\ outcome = Returned(content)

\* C8: a function callback is invoked at most once, in the step that ends the
\* call: on a normal return once with the returned value, after the rules were
\* evaluated (also when there are none); on a decode failure once with the
\* error and never with a result.
C8_CallbackOnce ==
    /\ Len(cbLog) <= 1
    /\ callback # "fn" => cbLog = <<>>
    /\ callback = "fn" =>
          /\ outcome.k = "returned" => cbLog = << <<outcome.v>> >>
          /\ outcome = Threw(ErrDecode) => cbLog = << <<Null, ErrDecode>> >>
          /\ outcome = Threw(ErrRequired) => cbLog = <<>>
          /\ cbLog # <<>> => PEnded
          /\ (cbLog # <<>> /\ pc = "done" /\ typeRules # <<>>) =>
                Len(evald) = IF processed THEN idx ELSE Len(typeRules)

C8_Witness ==
    /\ callback = "fn" /\ pc = "done" /\ typeRules # <<>>
    /\ Len(evald) >= 2 /\ cbLog = << <<outcome.v>> >>

\* C9 as stated: the transform of at most one rule is applied during a call.
C9_Original == Cardinality({j \in 1..Len(evald) : evald[j].pred = "T"}) <= 1

AllowedTrails ==
    { <<"threw">>,
      <<"extracted", "done">>,
      <<"extracted", "scan", "matched", "done">>,
      <<"extracted", "scan", "exhausted", "done">> }

IsPrefix(a, b) == Len(a) <= Len(b) /\ SubSeq(b, 1, Len(a)) = a

\* C9, amended: at most one rule's transform completes in a call: that of the
\* first rule in the effective order whose predicate returns true and whose
\* transform returns.  Rules before it whose predicate returned true and whose
\* transform threw were applied and skipped.  Once a rule has matched and
\* transformed, no later rule is evaluated, and the evaluation goes scanning,
\* matched, done or scanning, exhausted, done, never back.
C9_OneRuleCompletes ==
    /\ Cardinality({j \in 1..Len(evald) : evald[j].tf = "ok"}) <= 1
    /\ \A j \in 1..Len(evald) :
          evald[j].tf = "ok" => j = Len(evald) /\ j = FirstOk(typeRules, content)
    /\ \A j \in 1..Len(evald) : evald[j].pred = "T" /\ evald[j].tf # "ok" =>
          ~ApplyParse(typeRules[j].parse, content).ok
    /\ \E t \in AllowedTrails : IsPrefix(trail, t)
    /\ (trail # <<>> => trail[Len(trail)] = pc)
    /\ processed <=> \E j \in 1..Len(evald) : evald[j].tf = "ok"

C9_Witness ==
    /\ pc = "done" /\ Len(evald) >= 2
    /\ evald[1].pred = "T" /\ evald[1].tf = "threw"
    /\ evald[Len(evald)].tf = "ok"

-----------------------------------------------------------------------------
(* safeStringify: the values *)

\* A value is a leaf, named by its kind, or a reference to an object of the
\* heap, named by its identity.  Objects are plain objects ("obj"), arrays
\* ("arr"), objects without prototype ("bare") and regular expressions ("re").
NodeName == <<"n1", "n2", "n3", "n4">>
Nodes == {NodeName[i] : i \in 1..MaxNodes}
Leaves == {"num", "str", "null", "bool", "undef", "date", "baddate", "func", "bigint", "symbol"}

\* the keys of an object's properties, in insertion order
Keys == <<"a", "b">>
FieldLists(vals) == UNION {[1..m -> vals] : m \in 0..Len(Keys)}

EmptyObj == [kind |-> "obj", fields |-> <<>>]

Succ(h, n) == {h[n].fields[i] : i \in 1..Len(h[n].fields)} \cap Nodes

RECURSIVE Closure(_, _)
Closure(h, S) ==
    LET T == S \cup UNION {Succ(h, n) : n \in S} IN
    IF T = S THEN S ELSE Closure(h, T)

\* the objects of the value graph of r
Reachable(h, r) == IF r \in Nodes THEN Closure(h, {r}) ELSE {}

\* graphs of objects and regular expressions holding objects and numbers,
\* every object reachable from the argument n1
ShapeHeaps ==
    {h \in [Nodes -> {[kind |-> "obj", fields |-> f] : f \in FieldLists(Nodes \cup {"num"})}
                     \cup {[kind |-> "re", fields |-> <<>>]}] :
        Reachable(h, "n1") = Nodes}

\* one object, array or prototype-less object holding leaves of every kind and
\* itself
LeafHeaps ==
    {[n \in Nodes |-> IF n = "n1" THEN [kind |-> kd, fields |-> f] ELSE EmptyObj] :
        kd \in {"obj", "arr", "bare"}, f \in FieldLists(Leaves \cup {"n1"})}
    \cup {[n \in Nodes |-> IF n = "n1" THEN [kind |-> "re", fields |-> <<>>] ELSE EmptyObj]}

-----------------------------------------------------------------------------
(* safeStringify: the text it produces, as tokens *)

CIRC == "\"[Circular Reference]\""
TokISO == "2020-01-01T00:00:00.000Z"
TokRegExp == "/re/g"
TokFn == "() => 1"
Quoted(t) == "\"" \o t \o "\""
KeyTok(i) == Quoted(Keys[i]) \o ":"
Open(kd) == IF kd = "arr" THEN "[" ELSE "{"
Close(kd) == IF kd = "arr" THEN "]" ELSE "}"

\* value.toJSON(), which JSON.stringify calls before the replacer: only a Date
\* has one; an invalid Date gives null
ToJSON(ref) ==
    CASE ref = "date" -> "isostr"
      [] ref = "baddate" -> "null"
      [] OTHER -> ref

\* the replacer without seen.add(val)
ReplacerNoAdd(val, s) ==
    IF val \in Nodes /\ val \in s
    THEN [val |-> "circ", seen |-> s, hit |-> TRUE]
    ELSE [val |-> CASE val = "date" -> "isostr"
                    [] val \in Nodes /\ heap[val].kind = "re" -> "restr"
                    [] val = "func" -> "fnstr"
                    [] OTHER -> val,
          seen |-> s, hit |-> FALSE]

\* the replacer (key, val) => ... with the WeakSet s: the value it returns and
\* the WeakSet afterwards
Replacer(val, s) ==
    IF val \in Nodes /\ val \in s
    THEN [val |-> "circ", seen |-> s, hit |-> TRUE]
    ELSE [val |-> CASE val = "date" -> "isostr"
                    [] val \in Nodes /\ heap[val].kind = "re" -> "restr"
                    [] val = "func" -> "fnstr"
                    [] OTHER -> val,
          seen |-> IF val \in Nodes THEN s \cup {val} ELSE s,
          hit |-> FALSE]

\* JSON.stringify's treatment of the value the replacer returned: a token, a
\* descent into an object, nothing (undefined) or a TypeError
Serialize(val) ==
    CASE val = "circ" -> [act |-> "token", tok |-> CIRC]
      [] val = "isostr" -> [act |-> "token", tok |-> Quoted(TokISO)]
      [] val = "restr" -> [act |-> "token", tok |-> Quoted(TokRegExp)]
      [] val = "fnstr" -> [act |-> "token", tok |-> Quoted(TokFn)]
      [] val = "str" -> [act |-> "token", tok |-> Quoted("s")]
      [] val = "num" -> [act |-> "token", tok |-> "1"]
      [] val = "bool" -> [act |-> "token", tok |-> "true"]
      [] val = "null" -> [act |-> "token", tok |-> "null"]
      [] val \in {"undef", "symbol"} -> [act |-> "omit", tok |-> ""]
      [] val = "bigint" -> [act |-> "throw", tok |-> ""]
      [] val \in Nodes -> [act |-> "descend", tok |-> Open(heap[val].kind)]

\* String(value), the fallback of the catch block.  Array.prototype.join
\* renders null and undefined as nothing and an array already being joined as
\* nothing; a Symbol element and an object without prototype cannot be
\* converted (TypeError).
RECURSIVE StringOf(_, _, _), JoinFrom(_, _, _)
StringOf(ref, active, top) ==
    CASE ref = "num" -> [ok |-> TRUE, txt |-> <<"1">>]
      [] ref = "str" -> [ok |-> TRUE, txt |-> <<"s">>]
      [] ref = "bool" -> [ok |-> TRUE, txt |-> <<"true">>]
      [] ref = "null" -> [ok |-> TRUE, txt |-> <<"null">>]
      [] ref = "undef" -> [ok |-> TRUE, txt |-> <<"undefined">>]
      [] ref = "date" -> [ok |-> TRUE, txt |-> <<"Wed Jan 01 2020">>]
      [] ref = "baddate" -> [ok |-> TRUE, txt |-> <<"Invalid Date">>]
      [] ref = "func" -> [ok |-> TRUE, txt |-> <<TokFn>>]
      [] ref = "bigint" -> [ok |-> TRUE, txt |-> <<"1">>]
      [] ref = "symbol" -> [ok |-> top, txt |-> <<"Symbol()">>]
      [] ref \in Nodes ->
            CASE heap[ref].kind = "obj" -> [ok |-> TRUE, txt |-> <<"[object Object]">>]
              [] heap[ref].kind = "re" -> [ok |-> TRUE, txt |-> <<TokRegExp>>]
              [] heap[ref].kind = "bare" -> [ok |-> FALSE, txt |-> <<>>]
              [] heap[ref].kind = "arr" ->
                    IF ref \in active THEN [ok |-> TRUE, txt |-> <<>>]
                    ELSE JoinFrom(ref, 1, active \cup {ref})

JoinFrom(n, i, active) ==
    IF i > Len(heap[n].fields) THEN [ok |-> TRUE, txt |-> <<>>]
    ELSE LET e == heap[n].fields[i]
             head == IF e \in {"null", "undef"} THEN [ok |-> TRUE, txt |-> <<>>]
                     ELSE StringOf(e, active, FALSE)
             rest == JoinFrom(n, i + 1, active)
         IN IF head.ok /\ rest.ok
            THEN [ok |-> TRUE,
                  txt |-> (IF i > 1 THEN <<",">> ELSE <<>>) \o head.txt \o rest.txt]
            ELSE [ok |-> FALSE, txt |-> <<>>]

-----------------------------------------------------------------------------
(* safeStringify: the state machine *)

SInit ==
    /\ sPc = "idle" /\ stack = <<>> /\ seen = {} /\ out = <<>>
    /\ descents = [n \in Nodes |-> 0] /\ hits = 0 /\ steps = 0 /\ sOutcome = "none"
    /\ \/ sRoot = "n1" /\ heap \in ShapeHeaps
       \/ sRoot = "n1" /\ heap \in LeafHeaps
       \/ sRoot \in Leaves /\ heap = [n \in Nodes |-> EmptyObj]

IsRegExp(ref) == ref \in Nodes /\ heap[ref].kind = "re"

\* the four tests made before JSON.stringify is called
Direct(ref) == ref \in {"date", "baddate", "func", "undef"} \/ IsRegExp(ref)

StackNodes == {stack[i].node : i \in 1..Len(stack)}

Frame(n) == [node |-> n, next |-> 1, emitted |-> 0]

\* value.toISOString(), value.toString() or 'undefined' is returned at once;
\* toISOString throws a RangeError on an invalid Date
SDirect ==
    /\ UNCHANGED <<pvars, fvars>>
    /\ sPc = "idle" /\ Direct(sRoot)
    /\ steps' = steps + 1
    /\ IF sRoot = "baddate"
       THEN sPc' = "caught" /\ UNCHANGED <<out, sOutcome>>
       ELSE /\ sPc' = "done"
            /\ sOutcome' = "string"
            /\ out' = CASE sRoot = "date" -> <<TokISO>>
                        [] sRoot = "func" -> <<TokFn>>
                        [] sRoot = "undef" -> <<"undefined">>
                        [] OTHER -> <<TokRegExp>>
    /\ UNCHANGED <<sRoot, heap, stack, seen, descents, hits>>

\* JSON.stringify(value, replacer) is called: the replacer sees the argument
SBegin ==
    /\ UNCHANGED <<pvars, fvars>>
    /\ sPc = "idle" /\ ~Direct(sRoot)
    /\ steps' = steps + 1
    /\ LET r == Replacer(ToJSON(sRoot), {})
           z == Serialize(r.val)
       IN /\ seen' = r.seen
          /\ hits' = IF r.hit THEN hits + 1 ELSE hits
          /\ CASE z.act = "token" ->
                    /\ out' = <<z.tok>> /\ sPc' = "done" /\ sOutcome' = "string"
                    /\ UNCHANGED <<stack, descents>>
               [] z.act = "omit" ->
                    /\ sPc' = "done" /\ sOutcome' = "undefined"
                    /\ UNCHANGED <<out, stack, descents>>
               [] z.act = "throw" ->
                    /\ sPc' = "caught"
                    /\ UNCHANGED <<out, stack, descents, sOutcome>>
               [] z.act = "descend" ->
                    /\ out' = <<z.tok>>
                    /\ stack' = <<Frame(r.val)>>
                    /\ descents' = [descents EXCEPT ![r.val] = @ + 1]
                    /\ sPc' = "walk"
                    /\ UNCHANGED sOutcome
    /\ UNCHANGED <<sRoot, heap>>

\* the next property of the object on top of the recursion: toJSON, replacer,
\* then the value is written, descended into or left out.  JSON.stringify
\* itself throws a TypeError on a value that is on its recursion stack.
SStep ==
    /\ UNCHANGED <<pvars, fvars>>
    /\ sPc = "walk" /\ stack # <<>>
    /\ LET d == Len(stack)
           top == stack[d]
           kd == heap[top.node].kind
       IN /\ top.next <= Len(heap[top.node].fields)
          /\ LET r == Replacer(ToJSON(heap[top.node].fields[top.next]), seen)
                 z == Serialize(r.val)
                 pre == (IF top.emitted > 0 THEN <<",">> ELSE <<>>)
                        \o (IF kd = "arr" THEN <<>> ELSE <<KeyTok(top.next)>>)
                 adv == [top EXCEPT !.next = @ + 1, !.emitted = @ + 1]
             IN /\ seen' = r.seen
                /\ hits' = IF r.hit THEN hits + 1 ELSE hits
                /\ CASE z.act = "token" ->
                          /\ out' = out \o pre \o <<z.tok>>
                          /\ stack' = [stack EXCEPT ![d] = adv]
                          /\ UNCHANGED <<sPc, descents>>
                     [] z.act = "omit" /\ kd = "arr" ->
                          /\ out' = out \o pre \o <<"null">>
                          /\ stack' = [stack EXCEPT ![d] = adv]
                          /\ UNCHANGED <<sPc, descents>>
                     [] z.act = "omit" /\ kd # "arr" ->
                          /\ stack' = [stack EXCEPT ![d] = [top EXCEPT !.next = @ + 1]]
                          /\ UNCHANGED <<out, sPc, descents>>
                     [] z.act = "throw" \/ (z.act = "descend" /\ r.val \in StackNodes) ->
                          /\ sPc' = "caught"
                          /\ UNCHANGED <<out, stack, descents>>
                     [] z.act = "descend" /\ r.val \notin StackNodes ->
                          /\ out' = out \o pre \o <<z.tok>>
                          /\ stack' = Append([stack EXCEPT ![d] = adv], Frame(r.val))
                          /\ descents' = [descents EXCEPT ![r.val] = @ + 1]
                          /\ UNCHANGED sPc
    /\ steps' = steps + 1
    /\ UNCHANGED <<sRoot, heap, sOutcome>>

\* the object on top of the recursion has no property left: it is closed; with
\* the outermost one JSON.stringify returns its text
SPop ==
    /\ UNCHANGED <<pvars, fvars>>
    /\ sPc = "walk" /\ stack # <<>>
    /\ LET top == stack[Len(stack)] IN
        /\ top.next > Len(heap[top.node].fields)
        /\ out' = Append(out, Close(heap[top.node].kind))
    /\ stack' = SubSeq(stack, 1, Len(stack) - 1)
    /\ sPc' = IF Len(stack) = 1 THEN "done" ELSE "walk"
    /\ sOutcome' = IF Len(stack) = 1 THEN "string" ELSE sOutcome
    /\ steps' = steps + 1
    /\ UNCHANGED <<sRoot, heap, seen, descents, hits>>

\* catch (err) { console.warn(...); return String(value) }
SCatch ==
    /\ UNCHANGED <<pvars, fvars>>
    /\ sPc = "caught"
    /\ LET f == StringOf(sRoot, {}, TRUE) IN
        /\ out' = f.txt
        /\ sOutcome' = IF f.ok THEN "string" ELSE "threw"
    /\ sPc' = "done"
    /\ steps' = steps + 1
    /\ UNCHANGED <<sRoot, heap, stack, seen, descents, hits>>

NextStringify ==
    \/ SDirect
    \/ SBegin
    \/ SStep
    \/ SPop
    \/ SCatch

PUnused ==
    /\ response = NoResponse /\ parsers = <<>> /\ callback = "none" /\ pc = "unused"
    /\ content = Undef /\ typeRules = <<>> /\ idx = 0 /\ result = Undef
    /\ processed = FALSE /\ evald = <<>> /\ cbLog = <<>> /\ trail = <<>>
    /\ outcome = NoOutcome

InitStringify == SInit /\ PUnused /\ FIdle
SpecStringify == InitStringify /\ [][NextStringify]_vars

-----------------------------------------------------------------------------
(* safeStringify: the claims *)

CountCirc(t) == Cardinality({i \in 1..Len(t) : t[i] = CIRC})

\* the properties of the value graph that hold an object
NodeEdges(h, r) ==
    {<<n, i>> \in Reachable(h, r) \X (1..Len(Keys)) :
        i <= Len(h[n].fields) /\ h[n].fields[i] \in Nodes}

\* the edges that lead to an object already visited: each object but the
\* argument is entered through one edge, every other edge finds it visited
RepeatEdges(h, r) == Cardinality(NodeEdges(h, r)) - (Cardinality(Reachable(h, r)) - 1)

\* no object of the graph contains itself, directly or transitively
Acyclic(h, r) == \A n \in Reachable(h, r) : n \notin Closure(h, Succ(h, n))

\* the graph holds a value the structural encoder rejects (a BigInt)
Rejected(h, r) ==
    \/ r = "bigint"
    \/ \E n \in Reachable(h, r) : \E i \in 1..Len(h[n].fields) : h[n].fields[i] = "bigint"

\* the standard JSON encoding with a date, a regular expression and a function
\* replaced by their special encodings at every depth; undefined is left out of
\* an object and null in an array, as JSON.stringify has it
RECURSIVE StdJSON(_, _), StdFields(_, _, _, _)
StdJSON(h, ref) ==
    CASE ref = "num" -> <<"1">>
      [] ref = "str" -> <<Quoted("s")>>
      [] ref = "bool" -> <<"true">>
      [] ref \in {"null", "baddate"} -> <<"null">>
      [] ref = "date" -> <<Quoted(TokISO)>>
      [] ref = "func" -> <<Quoted(TokFn)>>
      [] ref \in {"undef", "symbol"} -> <<>>
      [] ref \in Nodes ->
            IF h[ref].kind = "re" THEN <<Quoted(TokRegExp)>>
            ELSE <<Open(h[ref].kind)>> \o StdFields(h, ref, 1, 0) \o <<Close(h[ref].kind)>>

StdFields(h, n, i, emitted) ==
    IF i > Len(h[n].fields) THEN <<>>
    ELSE LET e == StdJSON(h, h[n].fields[i])
             isArr == h[n].kind = "arr"
             body == IF e = <<>> /\ isArr THEN <<"null">> ELSE e
             pre == (IF emitted > 0 THEN <<",">> ELSE <<>>)
                    \o (IF isArr THEN <<>> ELSE <<KeyTok(i)>>)
         IN IF body = <<>> THEN StdFields(h, n, i + 1, emitted)
            ELSE pre \o body \o StdFields(h, n, i + 1, emitted + 1)

Expected(h, r) ==
    CASE r = "date" -> <<TokISO>>
      [] r = "func" -> <<TokFn>>
      [] r = "undef" -> <<"undefined">>
      [] r \in Nodes /\ h[r].kind = "re" -> <<TokRegExp>>
      [] OTHER -> StdJSON(h, r)

SDone == sPc = "done"

\* C1 as stated: for every input safeStringify returns normally and returns a
\* string; the fallback never raises.
C1_AlwaysReturnsString == SDone => sOutcome = "string"

\* C6 as stated: for every acyclic value the encoder accepts, the result is the
\* standard JSON encoding with the special kinds replaced at every depth, and
\* holds no '[Circular Reference]' placeholder.
C6_AcyclicEqualsStandardEncoding ==
    (SDone /\ Acyclic(heap, sRoot) /\ ~Rejected(heap, sRoot)
           /\ sRoot \notin {"symbol", "baddate"})
        => /\ sOutcome = "string"
           /\ out = Expected(heap, sRoot)
           /\ CountCirc(out) = 0

HasSelfReference == sRoot \in Nodes /\ sRoot \in Succ(heap, sRoot)

\* C7 as stated: for a value with direct self-reference the output holds the
\* literal once per edge that leads to an already-visited object.
C7_Original ==
    (SDone /\ HasSelfReference)
        => sOutcome = "string" /\ CountCirc(out) = RepeatEdges(heap, sRoot)

\* the steps a call can take: entry, catch, and per object one step for each
\* property and one to close it
WorkBound ==
    2 + Cardinality(Nodes)
      + Cardinality({<<n, i>> \in Nodes \X (1..Len(Keys)) : i <= Len(heap[n].fields)})

\* C7, amended: for every finite value graph the traversal terminates, each
\* object is descended into at most once, and every edge that leads to an
\* already-visited object is written as the literal instead of being followed.
\* When the structural encoding completes, the output holds the literal once
\* per such edge (for a value whose only repeated references are to itself,
\* once per self-reference); when the encoder rejects a value of the graph, the
\* output is the plain-text fallback and holds no literal.
C7_TerminatesPlaceholderPerRepeatEdge ==
    /\ \A n \in Nodes : descents[n] <= 1
    /\ steps <= WorkBound
    /\ SDone \/ ENABLED NextStringify
    /\ sPc = "walk" => CountCirc(out) = hits
    /\ (SDone /\ sRoot \in Nodes /\ ~Rejected(heap, sRoot)) =>
          sOutcome = "string" /\ CountCirc(out) = RepeatEdges(heap, sRoot)
    /\ (SDone /\ Rejected(heap, sRoot)) => CountCirc(out) = 0

C7_Witness ==
    /\ SDone /\ sOutcome = "string" /\ sRoot = "n1"
    /\ "n2" \in Succ(heap, "n1") /\ "n1" \in Succ(heap, "n2") /\ "n1" \in Succ(heap, "n1")
    /\ CountCirc(out) = 2

-----------------------------------------------------------------------------
(* quickFind: regular expressions *)

\* A regular expression source is read as a sequence of items, each a literal
\* character, starred or not.  This covers the sources used here: a, b, a*
\* and the empty source.
RECURSIVE ParseItems(_, _)
ParseItems(src, i) ==
    IF i > Len(src) THEN <<>>
    ELSE IF i + 1 <= Len(src) /\ src[i + 1] = "*"
         THEN <<[c |-> src[i], star |-> TRUE]>> \o ParseItems(src, i + 2)
         ELSE <<[c |-> src[i], star |-> FALSE]>> \o ParseItems(src, i + 1)

\* length of the run of character c in s from the 0-based position pos
RECURSIVE RunLen(_, _, _)
RunLen(s, pos, c) ==
    IF pos + 1 <= Len(s) /\ s[pos + 1] = c THEN 1 + RunLen(s, pos + 1, c) ELSE 0

\* the backtracking matcher: the 0-based end of the match of items k.. at
\* pos, greedy; -1 if there is none
RECURSIVE MatchHere(_, _, _, _), MatchStar(_, _, _, _, _)
MatchHere(items, k, s, pos) ==
    IF k > Len(items) THEN pos
    ELSE IF items[k].star THEN MatchStar(items, k, s, pos, RunLen(s, pos, items[k].c))
    ELSE IF pos + 1 <= Len(s) /\ s[pos + 1] = items[k].c
         THEN MatchHere(items, k + 1, s, pos + 1)
         ELSE -1

MatchStar(items, k, s, pos, n) ==
    LET r == MatchHere(items, k + 1, s, pos + n) IN
    IF r >= 0 THEN r
    ELSE IF n = 0 THEN -1
    ELSE MatchStar(items, k, s, pos, n - 1)

\* the first position from p at which items match; -1 if there is none
RECURSIVE SearchFrom(_, _, _)
SearchFrom(items, s, p) ==
    IF p > Len(s) THEN -1
    ELSE IF MatchHere(items, 1, s, p) >= 0 THEN p
    ELSE SearchFrom(items, s, p + 1)

\* globalRegEx.exec(stringContent) on a global regular expression whose
\* lastIndex is li: the match and the lastIndex afterwards.  A failed search
\* resets lastIndex to 0; a match sets it to the end of the match, also when
\* the match is empty.
Exec(items, s, li) ==
    LET p == IF li > Len(s) THEN -1 ELSE SearchFrom(items, s, li) IN
    IF p < 0 THEN [found |-> FALSE, index |-> 0, value |-> <<>>, last |-> 0]
    ELSE LET e == MatchHere(items, 1, s, p) IN
         [found |-> TRUE, index |-> p, value |-> SubSeq(s, p + 1, e), last |-> e]

-----------------------------------------------------------------------------
(* quickFind: the arguments *)

\* a pattern is a RegExp object of the caller ("regexp", with its source and
\* its global flag) or a string ("string", with its text)
RegExpPatterns ==
    {[form |-> "regexp", text |-> t, global |-> g] :
        t \in {<<"a">>, <<"b">>, <<"a", "*">>}, g \in BOOLEAN}

StringPatterns ==
    {[form |-> "string", text |-> t, global |-> FALSE] :
        t \in {<<"a">>, <<"a", "*">>, <<"/", "a", "/", "g">>, <<"/", "b", "/">>}}

Patterns == RegExpPatterns \cup StringPatterns

Contents == UNION {[1..m -> {"a", "b"}] : m \in 0..MaxContent}

FlagChars == {"g", "i", "m", "u", "y"}

\* pattern.lastIndexOf('/'), 1-based; 0 if there is none
LastSlash(t) ==
    IF \E i \in 1..Len(t) : t[i] = "/"
    THEN CHOOSE i \in 1..Len(t) : t[i] = "/" /\ \A j \in (i + 1)..Len(t) : t[j] # "/"
    ELSE 0

\* pattern.startsWith('/') && /\/[gimuy]*$/.test(pattern)
IsSlashed(t) ==
    /\ Len(t) >= 1 /\ t[1] = "/"
    /\ \A j \in (LastSlash(t) + 1)..Len(t) : t[j] \in FlagChars

\* the source of the regular expression built for a pattern
SourceOf(pat) ==
    IF pat.form = "regexp" THEN pat.text
    ELSE IF IsSlashed(pat.text) THEN SubSeq(pat.text, 2, LastSlash(pat.text) - 1)
    ELSE pat.text

\* globalRegEx is the caller's own object exactly when the pattern is a RegExp
\* with the global flag; otherwise a new RegExp is built, with lastIndex 0
CallerOwned(pat) == pat.form = "regexp" /\ pat.global

-----------------------------------------------------------------------------
(* quickFind: the state machine *)

Match(r, i) == [index |-> r.index, value |-> r.value, pattern |-> i]

\* while ((match = globalRegEx.exec(stringContent)) !== null && count < opts.maxMatches)
\* exec runs before the count is tested, so the turn that ends the loop at the
\* cap has already moved lastIndex past one more match
RECURSIVE Loop(_, _, _, _, _, _)
Loop(items, s, li, count, matches, i) ==
    LET r == Exec(items, s, li) IN
    IF ~r.found THEN [matches |-> matches, last |-> r.last]
    ELSE IF count < fMax
         THEN Loop(items, s, r.last, count + 1, Append(matches, Match(r, i)), i)
         ELSE [matches |-> matches, last |-> r.last]

\* the turn of the for..of loop for pattern i
RunPattern(i) ==
    LET pat == fPatterns[i]
        start == IF CallerOwned(pat) THEN lastIndex[i] ELSE 0
    IN Loop(ParseItems(SourceOf(pat), 1), fContent, start, 0, <<>>, i)

\* results[patternName] = matches.length > 0 ? matches : null
Report(m) == [isNull |-> m = <<>>, list |-> m]

FInit ==
    /\ fContent \in Contents
    /\ fPatterns \in UNION {[1..m -> Patterns] : m \in 1..2}
    /\ fMax \in 0..MaxCap
    /\ lastIndex = [i \in 1..Len(fPatterns) |-> 0]
    /\ reports = <<>>

\* if (!content) throw new Error('Content is required')
FReject ==
    /\ UNCHANGED <<pvars, svars>>
    /\ Len(reports) < MaxCalls
    /\ fContent = <<>>
    /\ reports' = Append(reports, [threw |-> TRUE, results |-> <<>>])
    /\ UNCHANGED <<fContent, fPatterns, fMax, lastIndex>>

\* one call of quickFind(content, patterns, { maxMatches })
FCall ==
    /\ UNCHANGED <<pvars, svars>>
    /\ Len(reports) < MaxCalls
    /\ fContent # <<>>
    /\ reports' = Append(reports,
            [threw |-> FALSE,
             results |-> [i \in 1..Len(fPatterns) |-> Report(RunPattern(i).matches)]])
    /\ lastIndex' = [i \in 1..Len(fPatterns) |->
                        IF CallerOwned(fPatterns[i]) THEN RunPattern(i).last ELSE lastIndex[i]]
    /\ UNCHANGED <<fContent, fPatterns, fMax>>

NextFind ==
    \/ FReject
    \/ FCall

InitFind == FInit /\ PUnused /\ SIdle
SpecFind == InitFind /\ [][NextFind]_vars

-----------------------------------------------------------------------------
(* quickFind: the claim *)

\* all matches of items in s, scanning from the start; after an empty match the
\* scan moves on by one character
RECURSIVE AllMatches(_, _, _, _)
AllMatches(items, s, from, i) ==
    LET p == SearchFrom(items, s, from) IN
    IF p < 0 THEN <<>>
    ELSE LET e == MatchHere(items, 1, s, p) IN
         <<[index |-> p, value |-> SubSeq(s, p + 1, e), pattern |-> i]>>
             \o AllMatches(items, s, IF e > p THEN e ELSE p + 1, i)

Min(a, b) == IF a < b THEN a ELSE b

ExpectedReport(i) ==
    LET all == AllMatches(ParseItems(SourceOf(fPatterns[i]), 1), fContent, 0, i) IN
    Report(SubSeq(all, 1, Min(fMax, Len(all))))

\* C10 as stated: every call made with the same non-empty content, the same
\* pattern objects and the same maxMatches reports for each pattern the first
\* min(maxMatches, N) matches from the start of the content, in increasing
\* index order, or null when there is none.
C10_SameReportEveryCall ==
    fContent # <<>> =>
        \A c \in 1..Len(reports) :
            /\ ~reports[c].threw
            /\ \A i \in 1..Len(fPatterns) : reports[c].results[i] = ExpectedReport(i)

=============================================================================
